---- MODULE Spec2Model ----
(***************************************************************************)
(* wav-gen: a command line program that generates a sine wave, a sweeping  *)
(* sine wave or a superposition of harmonics and writes it to a wav file.  *)
(*                                                                         *)
(* Numbers.  TLC integers are 32 bit signed, so                            *)
(*   - a u32 is a little-endian sequence of 4 bytes (U32), which keeps     *)
(*     the width of `duration * sampling_rate`;                           *)
(*   - an f32 is a fixed point number with FScale units per 1.0; a         *)
(*     division rounds to the nearest unit, an addition is exact;          *)
(*   - sin() is Bhaskara's rational approximation on a phase quantised to  *)
(*     whole degrees: exact at 0, 30, 90, 150, 180 degrees, odd, and       *)
(*     bounded by 1 in magnitude.                                          *)
(* Integer overflow is not undefined in Rust: a build with overflow checks *)
(* (the dev profile) panics, one without (the release profile) wraps.      *)
(* Both builds are modelled (overflow_checks).                             *)
(***************************************************************************)
EXTENDS Integers, Sequences, FiniteSets, TLC

VARIABLES
    pc,              \* position in main, or in the unit call of a generator
    overflow_checks, \* TRUE: dev profile (panic on overflow), FALSE: release (wrap)
    cli,             \* the parsed command line (struct Cli / enum Commands)
    sampling_rate,   \* let sampling_rate
    csv_file,        \* the harmonics csv file: readable or not, and its data rows
    read_result,     \* what read_harmonics returned
    harmonics_set,   \* let mut harmonics_set
    number_samples,  \* let number_samples / n_samples, a u32
    has_data,        \* a generator returned a buffer
    data,            \* let data: Vec<i16>
    sine_calls,      \* number of calls of gen_sine_wave made so far
    outcome,         \* what the invocation (or the unit call) ended with
    out_file,        \* let mut out_file: "none", "open", "closed" (dropped)
    file_exists,     \* the destination was created or truncated on disk
    serializer       \* the writer the buffer was handed to

vars == <<pc, overflow_checks, cli, sampling_rate, csv_file, read_result,
          harmonics_set, number_samples, has_data, data, sine_calls, outcome,
          out_file, file_exists, serializer>>

----------------------------------------------------------------------------
(* Bounds of the model *)

\* fixed point units per 1.0 of an f32
FScale == 100
\* largest number of samples per channel a generator is run for
MaxSamples == 4
\* largest number of harmonics in a set handed to a unit call
MaxHarmonics == 2
\* largest number of data rows of the harmonics csv file
MaxRows == 2
\* largest --length given on the command line
MaxLength == 3

----------------------------------------------------------------------------
(* Fixed width integers *)

U32(n) == <<n % 256, (n \div 256) % 256, (n \div 65536) % 256, n \div 16777216>>

U32Max == <<255, 255, 255, 255>>

\* the value of a u32 below 2^16
U32IsSmall(b) == b[3] = 0 /\ b[4] = 0
U32Val(b) == b[1] + 256 * b[2]

\* u32 * u32 for a right operand below 2^16: the wrapped product and whether
\* the mathematical product left the u32 range
U32Mul(b, r) ==
    LET p1 == b[1] * r
        p2 == b[2] * r + p1 \div 256
        p3 == b[3] * r + p2 \div 256
        p4 == b[4] * r + p3 \div 256
    IN  [wrapped  |-> <<p1 % 256, p2 % 256, p3 % 256, p4 % 256>>,
         overflow |-> p4 \div 256 > 0]

I16Min == -32768
I16Max == 32767
U16Max == 65535

InI16(x) == I16Min <= x /\ x <= I16Max

\* i16 + i16 of a release build: two's complement wrap
WrapI16(x) == ((x - I16Min) % 65536) + I16Min

\* `as i16`, `as u16`, `as u32` of an f32 already truncated: saturating
CastI16(x) == IF x < I16Min THEN I16Min ELSE IF x > I16Max THEN I16Max ELSE x
CastU16(x) == IF x < 0 THEN 0 ELSE IF x > U16Max THEN U16Max ELSE x

Abs(x) == IF x < 0 THEN -x ELSE x

\* division truncating toward zero (the float to integer cast), b > 0
TruncDiv(a, b) == IF a >= 0 THEN a \div b ELSE -((-a) \div b)

\* division rounding to the nearest unit (an f32 division), b > 0
RoundDiv(a, b) == IF a >= 0 THEN (2 * a + b) \div (2 * b)
                            ELSE -((2 * (-a) + b) \div (2 * b))

----------------------------------------------------------------------------
(* f32 *)

\* u32 as f32
F32(n) == n * FScale
\* f32 as u32
F32AsU32(x) == IF x < 0 THEN 0 ELSE x \div FScale
\* f32 / f32
F32Div(a, b) == RoundDiv(a * FScale, b)

\* the phase num/den of a full turn, in whole degrees 0..359
PhaseDeg(num, den) == ((num % den) * 360) \div den

\* sin of d degrees as the fraction SinNum(d) / SinDen(d)
SinNum(d) == IF d < 180 THEN 4 * d * (180 - d)
                        ELSE -(4 * (d - 180) * (360 - d))
SinDen(d) == IF d < 180 THEN 40500 - d * (180 - d)
                        ELSE 40500 - (d - 180) * (360 - d)

\* (sin(phase) * volume as f32) as i16
Amplitude(d, volume) == CastI16(TruncDiv(SinNum(d) * volume, SinDen(d)))

----------------------------------------------------------------------------
(* The generators *)

\* gen_sine_wave: the sample at index t
SineSample(frequency, t, volume, rate) ==
    Amplitude(PhaseDeg(t * frequency, rate), volume)

\* mutant: every sample is pushed once
gen_sine_wave_once(frequency, n, volume, rate) ==
    [i \in 1..n |-> SineSample(frequency, i - 1, volume, rate)]

\* gen_sine_wave: every sample is pushed twice (left and right channel)
gen_sine_wave(frequency, n, volume, rate) ==
    [i \in 1..(2 * n) |-> SineSample(frequency, (i - 1) \div 2, volume, rate)]

\* mutant: the increment is finish / number_samples, start forgotten
frequency_increment_from_zero(start, finish, n) == F32Div(F32(finish), F32(n))

\* gen_sweep_wave: let frequency_increment
frequency_increment(start, finish, n) == F32Div(F32(finish) - F32(start), F32(n))

\* gen_sweep_wave: the value of sweep_frequency after t iterations of the loop
RECURSIVE sweep_frequency(_, _, _, _)
sweep_frequency(start, finish, n, t) ==
    IF t = 0 THEN F32(start)
    ELSE sweep_frequency(start, finish, n, t - 1) + frequency_increment(start, finish, n)

\* gen_sweep_wave: the sample at index t
SweepSample(start, finish, n, t, volume, rate) ==
    Amplitude(PhaseDeg(t * sweep_frequency(start, finish, n, t), FScale * rate), volume)

gen_sweep_wave(start, finish, n, volume, rate) ==
    [i \in 1..(2 * n) |-> SweepSample(start, finish, n, (i - 1) \div 2, volume, rate)]

\* normalise_harmonics: let mut sum
RECURSIVE AmplitudeSum(_, _)
AmplitudeSum(set, j) ==
    IF j = 0 THEN 0 ELSE AmplitudeSum(set, j - 1) + set[j].amplitude

\* mutant: `sum = h.amplitude` for `sum += h.amplitude`, the sum is the last amplitude
normalise_harmonics_last(set) ==
    [j \in 1..Len(set) |->
        [set[j] EXCEPT !.amplitude = F32Div(@, set[Len(set)].amplitude)]]

normalise_harmonics(set) ==
    [j \in 1..Len(set) |->
        [set[j] EXCEPT !.amplitude = F32Div(@, AmplitudeSum(set, Len(set)))]]

\* gen_harmonics: the volume handed to gen_sine_wave for harmonic j
LayerVolume(set, j, volume) == CastU16(TruncDiv(set[j].amplitude * volume, FScale))

\* gen_harmonics: the buffer gen_sine_wave returns for harmonic j
Layer(set, j, n, volume, rate) ==
    gen_sine_wave(F32AsU32(set[j].frequency), n, LayerVolume(set, j, volume), rate)

\* gen_harmonics: data after harmonics 1..j were overlaid with wrapping additions
RECURSIVE Overlaid(_, _, _, _, _)
Overlaid(set, j, n, volume, rate) ==
    IF j = 1 THEN Layer(set, 1, n, volume, rate)
    ELSE LET prev == Overlaid(set, j - 1, n, volume, rate)
             over == Layer(set, j, n, volume, rate)
         IN  [i \in 1..(2 * n) |-> WrapI16(prev[i] + over[i])]

\* gen_harmonics: overlaying harmonic j (j > 1) overflows data[i] + overlay_data[i]
AddOverflows(set, j, n, volume, rate) ==
    LET prev == Overlaid(set, j - 1, n, volume, rate)
        over == Layer(set, j, n, volume, rate)
    IN  \E i \in 1..(2 * n) : ~InI16(prev[i] + over[i])

\* the first harmonic whose overlay overflows, 0 if none does
FirstOverflow(set, n, volume, rate) ==
    LET bad == {j \in 2..Len(set) : AddOverflows(set, j, n, volume, rate)}
    IN  IF bad = {} THEN 0 ELSE CHOOSE j \in bad : \A k \in bad : j <= k

\* mutant: an empty set yields a silent buffer instead of the error
gen_harmonics_silent(set, n, volume, rate, checks) ==
    IF Len(set) = 0
    THEN [kind |-> "Ok", has_data |-> TRUE, data |-> gen_sine_wave(0, n, 0, rate),
          sine_calls |-> 1]
    ELSE [kind |-> "Ok", has_data |-> TRUE,
          data |-> Overlaid(set, Len(set), n, volume, rate),
          sine_calls |-> Len(set)]

gen_harmonics(set, n, volume, rate, checks) ==
    IF Len(set) = 0
    THEN [kind |-> "NoHarmonics", has_data |-> FALSE, data |-> <<>>, sine_calls |-> 0]
    ELSE LET ov == FirstOverflow(set, n, volume, rate)
         IN  IF checks /\ ov # 0
             THEN [kind |-> "panic_add_overflow", has_data |-> FALSE, data |-> <<>>,
                   sine_calls |-> ov]
             ELSE [kind |-> "Ok", has_data |-> TRUE,
                   data |-> Overlaid(set, Len(set), n, volume, rate),
                   sine_calls |-> Len(set)]

----------------------------------------------------------------------------
(* The harmonics csv file *)

\* a field of a csv record: text that parses as an f32, or text that does not
Num(v) == [ok |-> TRUE, v |-> v]
Bad == [ok |-> FALSE, v |-> 0]

Result(kind, line, set) == [kind |-> kind, line |-> line, set |-> set]

\* read_harmonics: what the loop body does with data row k (line_number = k);
\* the csv reader refuses a record whose number of fields differs from the header's
RowError(file, k) ==
    LET record == file.rows[k]
    IN  IF Len(record) # file.columns THEN "ReadError"
        ELSE IF Len(record) < 1 \/ ~record[1].ok THEN "HarmonicParseError"
        ELSE IF Len(record) < 2 \/ ~record[2].ok THEN "HarmonicParseError"
        ELSE "Ok"

read_harmonics(file) ==
    IF ~file.readable THEN Result("CsvError", 0, <<>>)
    ELSE LET bad == {k \in 1..Len(file.rows) : RowError(file, k) # "Ok"}
         IN  IF bad = {}
             THEN Result("Ok", 0, [k \in 1..Len(file.rows) |->
                                     [frequency |-> file.rows[k][1].v,
                                      amplitude |-> file.rows[k][2].v]])
             ELSE LET line_number == CHOOSE k \in bad : \A j \in bad : k <= j
                  IN  IF RowError(file, line_number) = "HarmonicParseError"
                      THEN Result("HarmonicParseError", line_number, <<>>)
                      ELSE Result("ReadError", 0, <<>>)

----------------------------------------------------------------------------
(* Inputs *)

SeqsUpTo(S, n) == UNION {[1..k -> S] : k \in 0..n}

None == [some |-> FALSE, v |-> 0]
Some(v) == [some |-> TRUE, v |-> v]

Volumes == {0, 1000, 32767, U16Max}

\* --duration: 0, 1, the last product that fits a u32, the first that does not,
\* one whose product wraps to 4, and u32::MAX
Durations == {U32(0), U32(1), U32(97391), U32(97392), U32(331228657), U32Max}

Lengths == {None} \cup {Some(v) : v \in 0..MaxLength}

CliFrequencies == {432, 3675, 11025}
CliSweeps == {100, 2000, 11025}

NoFile == [readable |-> FALSE, columns |-> 2, rows |-> <<>>]

CsvRows(columns) ==
    IF columns = 2
    THEN {<<Num(F32(11025)), Num(50)>>, <<Num(F32(3675)), Num(50)>>,
          <<Num(F32(3675) + FScale \div 2), Num(30)>>,
          <<Bad, Num(30)>>, <<Num(F32(3675)), Bad>>, <<Num(F32(3675))>>}
    ELSE {<<Num(F32(3675))>>, <<Bad>>, <<Num(F32(3675)), Num(30)>>}

CsvFiles ==
    {NoFile} \cup
    {[readable |-> TRUE, columns |-> c, rows |-> r] :
        c \in {2}, r \in SeqsUpTo(CsvRows(2), MaxRows)} \cup
    {[readable |-> TRUE, columns |-> c, rows |-> r] :
        c \in {1}, r \in SeqsUpTo(CsvRows(1), MaxRows)}

Args(command, frequency, start, finish, duration, volume, output_type, length) ==
    [command |-> command, frequency |-> frequency, start |-> start,
     finish |-> finish, duration |-> duration, volume |-> volume,
     output_type |-> output_type, length |-> length]

\* the command lines clap accepts; an argument a subcommand lacks stays at a fixed value
SineArgs == {Args("Sine", f, 0, 0, d, v, t, l) :
                f \in CliFrequencies, d \in Durations, v \in Volumes,
                t \in {"Wav", "Rust"}, l \in Lengths}
SweepArgs == {Args("Sweep", 0, s, f, d, v, "Wav", None) :
                s \in CliSweeps, f \in CliSweeps, d \in Durations, v \in Volumes}
HarmonicsArgs == {Args("Harmonics", 0, 0, 0, d, v, "Wav", l) :
                d \in Durations, v \in Volumes, l \in {None, Some(MaxLength)}}

\* arguments of a unit call of a generator
UnitRates == {8, 12}
UnitFrequencies == {1, 2, 3}
UnitHarmonics == [frequency : {F32(1), F32(2), F32(2) + FScale \div 2},
                  amplitude : {10, 30}]

Outcome(kind) == [kind |-> kind, line |-> 0]

----------------------------------------------------------------------------
(* main *)

DefaultSamplingRate == 44100

Init ==
    /\ pc = "main"
    /\ overflow_checks \in BOOLEAN
    /\ sampling_rate = DefaultSamplingRate
    /\ \/ cli \in SineArgs /\ csv_file = NoFile
       \/ cli \in SweepArgs /\ csv_file = NoFile
       \/ cli \in HarmonicsArgs /\ csv_file \in CsvFiles
    /\ read_result = Result("None", 0, <<>>)
    /\ harmonics_set = <<>>
    /\ number_samples = U32(0)
    /\ has_data = FALSE
    /\ data = <<>>
    /\ sine_calls = 0
    /\ outcome = Outcome("Running")
    /\ out_file = "none"
    /\ file_exists = FALSE
    /\ serializer = "none"

\* main returns (or the process exits) with outcome o
Exit(o) == pc' = "done" /\ outcome' = o

\* duration * sampling_rate on u32
ResolveByDuration ==
    LET product == U32Mul(cli.duration, sampling_rate)
    IN  IF product.overflow /\ overflow_checks
        THEN /\ Exit(Outcome("panic_mul_overflow"))
             /\ UNCHANGED number_samples
        ELSE /\ number_samples' = product.wrapped
             /\ pc' = "generate"
             /\ UNCHANGED outcome

\* the model runs a generator for at most MaxSamples samples per channel
WithinBound == U32IsSmall(number_samples) /\ U32Val(number_samples) <= MaxSamples

\* Commands::Sine: let number_samples = match output_type
SineResolve ==
    /\ pc = "main" /\ cli.command = "Sine"
    /\ IF cli.output_type = "Wav" THEN ResolveByDuration
       ELSE IF cli.length.some
            THEN /\ number_samples' = U32(cli.length.v)
                 /\ pc' = "generate"
                 /\ UNCHANGED outcome
            ELSE /\ Exit(Outcome("MissingRequiredArgument"))
                 /\ UNCHANGED number_samples
    /\ UNCHANGED <<overflow_checks, cli, sampling_rate, csv_file, read_result,
                   harmonics_set, has_data, data, sine_calls, out_file,
                   file_exists, serializer>>

\* Commands::Sine: let data = gen_sine_wave(..)
SineGenerate ==
    /\ pc = "generate" /\ cli.command = "Sine" /\ WithinBound
    /\ data' = gen_sine_wave(cli.frequency, U32Val(number_samples), cli.volume,
                             sampling_rate)
    /\ has_data' = TRUE
    /\ sine_calls' = sine_calls + 1
    /\ pc' = "create"
    /\ UNCHANGED <<overflow_checks, cli, sampling_rate, csv_file, read_result,
                   harmonics_set, number_samples, outcome, out_file, file_exists,
                   serializer>>

\* Commands::Sweep: let n_samples = duration * sampling_rate
SweepResolve ==
    /\ pc = "main" /\ cli.command = "Sweep"
    /\ ResolveByDuration
    /\ UNCHANGED <<overflow_checks, cli, sampling_rate, csv_file, read_result,
                   harmonics_set, has_data, data, sine_calls, out_file,
                   file_exists, serializer>>

\* Commands::Sweep: let data = gen_sweep_wave(..)
SweepGenerate ==
    /\ pc = "generate" /\ cli.command = "Sweep" /\ WithinBound
    /\ data' = gen_sweep_wave(cli.start, cli.finish, U32Val(number_samples),
                              cli.volume, sampling_rate)
    /\ has_data' = TRUE
    /\ pc' = "create"
    /\ UNCHANGED <<overflow_checks, cli, sampling_rate, csv_file, read_result,
                   harmonics_set, number_samples, sine_calls, outcome, out_file,
                   file_exists, serializer>>

\* Commands::Harmonics: read_harmonics(p).map_err(|_| ReadError(..))?
HarmonicsRead ==
    /\ pc = "main" /\ cli.command = "Harmonics"
    /\ read_result' = read_harmonics(csv_file)
    /\ IF read_result'.kind = "Ok"
       THEN /\ harmonics_set' = read_result'.set
            /\ pc' = "normalise"
            /\ UNCHANGED outcome
       ELSE /\ Exit(Outcome("ReadError"))
            /\ UNCHANGED harmonics_set
    /\ UNCHANGED <<overflow_checks, cli, sampling_rate, csv_file, number_samples,
                   has_data, data, sine_calls, out_file, file_exists, serializer>>

\* Commands::Harmonics: normalise_harmonics(&mut harmonics_set)
HarmonicsNormalise ==
    /\ pc = "normalise" /\ cli.command = "Harmonics"
    /\ harmonics_set' = normalise_harmonics(harmonics_set)
    /\ pc' = "resolve"
    /\ UNCHANGED <<overflow_checks, cli, sampling_rate, csv_file, read_result,
                   number_samples, has_data, data, sine_calls, outcome, out_file,
                   file_exists, serializer>>

\* Commands::Harmonics: let n_samples = duration * sampling_rate
HarmonicsResolve ==
    /\ pc = "resolve" /\ cli.command = "Harmonics"
    /\ ResolveByDuration
    /\ UNCHANGED <<overflow_checks, cli, sampling_rate, csv_file, read_result,
                   harmonics_set, has_data, data, sine_calls, out_file,
                   file_exists, serializer>>

\* the caller's side of gen_harmonics(..)?
ApplyGenHarmonics(returned) ==
    LET r == gen_harmonics(harmonics_set, U32Val(number_samples), cli.volume,
                           sampling_rate, overflow_checks)
    IN  /\ sine_calls' = sine_calls + r.sine_calls
        /\ has_data' = r.has_data
        /\ data' = r.data
        /\ IF r.kind = "Ok"
           THEN pc' = returned /\ UNCHANGED outcome
           ELSE Exit(Outcome(r.kind))

\* Commands::Harmonics: let data = gen_harmonics(..)?
HarmonicsGenerate ==
    /\ pc = "generate" /\ cli.command = "Harmonics" /\ WithinBound
    /\ ApplyGenHarmonics("create")
    /\ UNCHANGED <<overflow_checks, cli, sampling_rate, csv_file, read_result,
                   harmonics_set, number_samples, out_file, file_exists,
                   serializer>>

\* mutant: the destination is created before the generator is called
CreateFileEarly ==
    /\ pc = "generate" /\ out_file = "none"
    /\ out_file' = "open"
    /\ file_exists' = TRUE
    /\ UNCHANGED <<pc, overflow_checks, cli, sampling_rate, csv_file, read_result,
                   harmonics_set, number_samples, has_data, data, sine_calls,
                   outcome, serializer>>

\* File::create(out_path).map_err(|_| CreateError(..))?
CreateFile ==
    /\ pc = "create"
    /\ \E created \in BOOLEAN :
        IF created
        THEN /\ out_file' = "open"
             /\ file_exists' = TRUE
             /\ pc' = "write"
             /\ UNCHANGED outcome
        ELSE /\ Exit(Outcome("CreateError"))
             /\ UNCHANGED <<out_file, file_exists>>
    /\ UNCHANGED <<overflow_checks, cli, sampling_rate, csv_file, read_result,
                   harmonics_set, number_samples, has_data, data, sine_calls,
                   serializer>>

\* wav::write(..).map_err(|_| WriteError(..))?, and out_file dropped as main returns
WavWrite ==
    /\ pc = "write"
    /\ serializer' = "wav::write"
    /\ \E written \in BOOLEAN :
        Exit(Outcome(IF written THEN "Ok" ELSE "WriteError"))
    /\ out_file' = "closed"
    /\ UNCHANGED <<overflow_checks, cli, sampling_rate, csv_file, read_result,
                   harmonics_set, number_samples, has_data, data, sine_calls,
                   file_exists>>

Next ==
    \/ SineResolve
    \/ SineGenerate
    \/ SweepResolve
    \/ SweepGenerate
    \/ HarmonicsRead
    \/ HarmonicsNormalise
    \/ HarmonicsResolve
    \/ HarmonicsGenerate
    \/ CreateFile
    \/ WavWrite

Spec == Init /\ [][Next]_vars

----------------------------------------------------------------------------
(* Unit calls of the generators and of normalise_harmonics, with any sampling *)
(* rate and number of samples                                                 *)

UnitInit ==
    /\ overflow_checks \in BOOLEAN
    /\ sampling_rate \in UnitRates
    /\ number_samples \in {U32(n) : n \in 0..MaxSamples}
    /\ \/ /\ pc = "unit_generate"
          /\ cli \in {Args("Sine", f, 0, 0, U32(0), v, "Wav", None) :
                        f \in UnitFrequencies, v \in Volumes}
          /\ harmonics_set = <<>>
       \/ /\ pc = "unit_generate"
          /\ cli \in {Args("Sweep", 0, s, f, U32(0), v, "Wav", None) :
                        s \in UnitFrequencies, f \in UnitFrequencies, v \in Volumes}
          /\ harmonics_set = <<>>
       \/ /\ pc = "unit_normalise"
          /\ cli \in {Args("Harmonics", 0, 0, 0, U32(0), v, "Wav", None) :
                        v \in Volumes}
          /\ harmonics_set \in SeqsUpTo(UnitHarmonics, MaxHarmonics)
    /\ csv_file = NoFile
    /\ read_result = Result("None", 0, <<>>)
    /\ has_data = FALSE
    /\ data = <<>>
    /\ sine_calls = 0
    /\ outcome = Outcome("Running")
    /\ out_file = "none"
    /\ file_exists = FALSE
    /\ serializer = "none"

CallGenSine ==
    /\ pc = "unit_generate" /\ cli.command = "Sine"
    /\ data' = gen_sine_wave(cli.frequency, U32Val(number_samples), cli.volume,
                             sampling_rate)
    /\ has_data' = TRUE
    /\ sine_calls' = sine_calls + 1
    /\ Exit(Outcome("Ok"))
    /\ UNCHANGED <<overflow_checks, cli, sampling_rate, csv_file, read_result,
                   harmonics_set, number_samples, out_file, file_exists,
                   serializer>>

CallGenSweep ==
    /\ pc = "unit_generate" /\ cli.command = "Sweep"
    /\ data' = gen_sweep_wave(cli.start, cli.finish, U32Val(number_samples),
                              cli.volume, sampling_rate)
    /\ has_data' = TRUE
    /\ Exit(Outcome("Ok"))
    /\ UNCHANGED <<overflow_checks, cli, sampling_rate, csv_file, read_result,
                   harmonics_set, number_samples, sine_calls, out_file,
                   file_exists, serializer>>

CallNormalise ==
    /\ pc = "unit_normalise"
    /\ harmonics_set' = normalise_harmonics(harmonics_set)
    /\ pc' = "unit_generate"
    /\ UNCHANGED <<overflow_checks, cli, sampling_rate, csv_file, read_result,
                   number_samples, has_data, data, sine_calls, outcome, out_file,
                   file_exists, serializer>>

CallGenHarmonics ==
    /\ pc = "unit_generate" /\ cli.command = "Harmonics"
    /\ ApplyGenHarmonics("unit_returned")
    /\ UNCHANGED <<overflow_checks, cli, sampling_rate, csv_file, read_result,
                   harmonics_set, number_samples, out_file, file_exists,
                   serializer>>

UnitNext ==
    \/ CallGenSine
    \/ CallGenSweep
    \/ CallNormalise
    \/ CallGenHarmonics

UnitSpec == UnitInit /\ [][UnitNext]_vars

----------------------------------------------------------------------------
(* Properties *)

\* the number of samples per channel of the unit call or invocation
N == U32Val(number_samples)

\* the channel count main writes into the wav header (Header::new)
NumberChannels == 2

\* C1: gen_harmonics called with an empty harmonic set returns NoHarmonics,
\* without having called gen_sine_wave and without a buffer, whatever the
\* sampling rate, volume and number of samples.
C1_EmptySetIsNoHarmonics ==
    (cli.command = "Harmonics" /\ Len(harmonics_set) = 0
        /\ pc \notin {"unit_normalise", "unit_generate"})
    => (pc = "done" /\ outcome.kind = "NoHarmonics" /\ sine_calls = 0
        /\ ~has_data /\ Len(data) = 0)

C1_Witness ==
    /\ cli.command = "Harmonics" /\ Len(harmonics_set) = 0
    /\ pc = "done" /\ outcome.kind = "NoHarmonics"
    /\ N = MaxSamples /\ cli.volume = 1000

\* C3: a buffer a generator returns holds number_samples * 2 values, and the
\* values at the 0-based positions 2k and 2k+1 are equal (stereo, both
\* channels the same).  The code has no mono layout.
C3_BufferIsInterleavedStereo ==
    has_data =>
        /\ Len(data) = N * NumberChannels
        /\ \A k \in 0..(N - 1) : data[2 * k + 1] = data[2 * k + 2]

C3_Witness ==
    /\ has_data /\ cli.command = "Harmonics" /\ Len(harmonics_set) = 2
    /\ N = 3 /\ Len(data) = 6 /\ data[3] # 0 /\ data[3] = data[4]


\* [new] is [old] with every amplitude divided by the sum of the amplitudes of
\* [old], each division rounded to the nearest unit
Normalised(old, new) ==
    LET sum == AmplitudeSum(old, Len(old))
    IN  /\ Len(new) = Len(old)
        /\ \A j \in 1..Len(old) :
            /\ new[j].frequency = old[j].frequency
            /\ 2 * Abs(new[j].amplitude * sum - old[j].amplitude * FScale) <= sum
        /\ \A j, k \in 1..Len(old) :
            2 * Abs(new[j].amplitude * old[k].amplitude
                    - new[k].amplitude * old[j].amplitude)
                <= old[j].amplitude + old[k].amplitude
        /\ 2 * Abs(AmplitudeSum(new, Len(new)) - FScale) <= Len(new)

\* C7: normalise_harmonics on a non-empty set of positive amplitudes leaves the
\* number, order and frequencies of the harmonics as they were, makes every
\* amplitude its old value divided by the old sum (so the ratio of any two is
\* kept), and makes the amplitudes sum to 1, each up to the rounding of the
\* divisions.
C7_NormaliseScalesBySum ==
    [][(pc = "unit_normalise" /\ pc' = "unit_generate" /\ Len(harmonics_set) > 0)
        => Normalised(harmonics_set, harmonics_set')]_vars

C7_Witness ==
    /\ pc = "unit_generate" /\ cli.command = "Harmonics"
    /\ Len(harmonics_set) = 2
    /\ harmonics_set[1].amplitude = (25 * FScale) \div 100
    /\ harmonics_set[2].amplitude = (75 * FScale) \div 100
    /\ harmonics_set[1].frequency # harmonics_set[2].frequency

SweepReturned == cli.command = "Sweep" /\ pc = "done" /\ has_data /\ N > 0

\* the value of sweep_frequency after t iterations of this sweep
Freq(t) == sweep_frequency(cli.start, cli.finish, N, t)

\* the frequency follows the additive recurrence from start with an increment of
\* (finish - start) / number_samples, and ends at finish, up to the rounding of
\* the division (half a unit per step)
SweepIsLinear ==
    /\ Freq(0) = F32(cli.start)
    /\ \A t \in 1..N : 2 * Abs((Freq(t) - Freq(t - 1)) * N
                               - (F32(cli.finish) - F32(cli.start))) <= N
    /\ \A t \in 0..N : 2 * Abs((Freq(t) - F32(cli.start)) * N
                               - t * (F32(cli.finish) - F32(cli.start))) <= t * N
    /\ 2 * Abs(Freq(N) - F32(cli.finish)) <= N

\* C9 as stated: the sweep is linear from start to finish, and the accumulated
\* frequency never exceeds finish (up to the rounding).
C9_SweepNeverExceedsFinish ==
    SweepReturned =>
        /\ SweepIsLinear
        /\ \A t \in 0..N : 2 * (Freq(t) - F32(cli.finish)) <= N

\* C9, amended: the sweep is linear from start to finish; an ascending sweep
\* (start <= finish) never exceeds finish and never falls below start, a
\* descending sweep (start > finish) never falls below finish and never
\* exceeds start, up to the rounding; and the frequency moves monotonically.
C9_SweepStaysBetweenStartAndFinish ==
    SweepReturned =>
        /\ SweepIsLinear
        /\ cli.start <= cli.finish =>
            /\ \A t \in 0..N : 2 * (Freq(t) - F32(cli.finish)) <= N
            /\ \A t \in 0..N : Freq(t) >= F32(cli.start)
            /\ \A t \in 1..N : Freq(t) >= Freq(t - 1)
        /\ cli.start > cli.finish =>
            /\ \A t \in 0..N : 2 * (F32(cli.finish) - Freq(t)) <= N
            /\ \A t \in 0..N : Freq(t) <= F32(cli.start)
            /\ \A t \in 1..N : Freq(t) <= Freq(t - 1)

C9_Witness ==
    /\ SweepReturned /\ N = 3
    /\ cli.start = 3 /\ cli.finish = 1
    /\ Freq(1) < Freq(0) /\ Freq(0) > F32(cli.finish)

\* C10: the destination is created only once the buffer exists, and the handle
\* is open only while the serializer is about to run; an invocation that ends
\* with an error of reading or generating has created no file; when main has
\* returned the handle is released.
C10_FileCreatedAfterGenerationAndReleased ==
    /\ (file_exists \/ out_file # "none") => has_data
    /\ out_file = "open" => pc = "write"
    /\ (pc = "done" /\ outcome.kind \in {"ReadError", "HarmonicParseError",
            "NoHarmonics", "panic_mul_overflow", "panic_add_overflow",
            "MissingRequiredArgument"})
        => (~file_exists /\ out_file = "none")
    /\ pc = "done" => out_file # "open"
    /\ (pc = "done" /\ file_exists) => out_file = "closed"

C10_Witness ==
    /\ pc = "done" /\ cli.command = "Harmonics" /\ outcome.kind = "WriteError"
    /\ file_exists /\ out_file = "closed" /\ has_data /\ N > 0


\* the length is taken from --length (the explicit total count of words)
ByExplicitCount == cli.command = "Sine" /\ cli.output_type = "Rust" /\ cli.length.some

\* the length is taken from --duration
ByDuration == cli.command \in {"Sweep", "Harmonics"}
              \/ (cli.command = "Sine" /\ cli.output_type = "Wav")

\* C2: with an explicit total count for the two-channel output, an odd count
\* ends the invocation with InvalidLength and generates nothing, and an even
\* count resolves to count / 2 samples per channel.
C2_OddStereoCountIsInvalidLength ==
    (ByExplicitCount /\ pc # "main") =>
        IF cli.length.v % 2 = 1
        THEN outcome.kind = "InvalidLength" /\ ~has_data /\ sine_calls = 0
        ELSE N = cli.length.v \div NumberChannels

\* C4: resolving the sample count from a duration never fails, and the count
\* is the mathematical product duration * sampling_rate (the u32 product
\* without wrap-around).
C4_DurationProductIsExact ==
    /\ outcome.kind # "panic_mul_overflow"
    /\ (ByDuration /\ pc = "generate") =>
        /\ ~U32Mul(cli.duration, sampling_rate).overflow
        /\ number_samples = U32Mul(cli.duration, sampling_rate).wrapped

\* data row k of the csv file lacks a column or holds text that is no number
Malformed(file, k) ==
    \/ Len(file.rows[k]) < 2
    \/ \E c \in 1..2 : ~file.rows[k][c].ok

\* C5: when the first malformed data row of the harmonics file is row k, the
\* invocation ends with HarmonicParseError(k).
C5_ParseErrorIsTheOutcome ==
    (cli.command = "Harmonics" /\ pc = "done" /\ csv_file.readable) =>
        \A k \in 1..Len(csv_file.rows) :
            (Malformed(csv_file, k) /\ \A j \in 1..(k - 1) : ~Malformed(csv_file, j))
            => outcome = [kind |-> "HarmonicParseError", line |-> k]

\* C6: the buffer is handed to the serializer the output type selects: the
\* array writer (write_rust) for --type rust, the wav writer for --type wav.
C6_SerializerFollowsOutputType ==
    serializer # "none" =>
        /\ cli.output_type = "Rust" => serializer = "write_rust"
        /\ cli.output_type = "Wav" => serializer = "wav::write"

\* C8: for a set whose amplitudes are normalised to sum to 1 and any volume,
\* every sample of the first layer and every sum data[i] + overlay_data[i]
\* is within the i16 range and at most the volume in magnitude, so that no
\* addition overflows.
C8_OverlayNeverOverflows ==
    (cli.command = "Harmonics" /\ pc \in {"unit_returned", "done"}
        /\ Len(harmonics_set) > 0
        /\ AmplitudeSum(harmonics_set, Len(harmonics_set)) = FScale)
    => /\ outcome.kind # "panic_add_overflow"
       /\ \A i \in 1..(2 * N) :
            Abs(Layer(harmonics_set, 1, N, cli.volume, sampling_rate)[i]) <= cli.volume
       /\ \A j \in 2..Len(harmonics_set) : \A i \in 1..(2 * N) :
            LET sum == Overlaid(harmonics_set, j - 1, N, cli.volume, sampling_rate)[i]
                       + Layer(harmonics_set, j, N, cli.volume, sampling_rate)[i]
            IN  InI16(sum) /\ Abs(sum) <= cli.volume


\* the permutations of 1..n, and a harmonic set with its rows reordered by one
RowOrders(n) == {p \in [1..n -> 1..n] : \A j, k \in 1..n : p[j] = p[k] => j = k}
Permute(set, p) == [j \in 1..Len(set) |-> set[p[j]]]

\* C11: gen_harmonics on a non-empty set succeeds, and on every permutation of
\* the rows of the set it succeeds too, with a buffer of the same length that
\* differs from the first by at most 1 at every index.
C11_RowOrderDoesNotMatter ==
    (cli.command = "Harmonics" /\ pc \in {"unit_returned", "done"}
        /\ Len(harmonics_set) > 0)
    => /\ pc = "unit_returned" /\ has_data
       /\ \A p \in RowOrders(Len(harmonics_set)) :
            LET r == gen_harmonics(Permute(harmonics_set, p), N, cli.volume,
                                   sampling_rate, overflow_checks)
            IN  /\ r.kind = "Ok"
                /\ Len(r.data) = Len(data)
                /\ \A i \in 1..Len(data) : Abs(r.data[i] - data[i]) <= 1

====
